---- MODULE Spec2Model ----
(***************************************************************************)
(* A model of portal-router's find_route (src/lib.rs): an A*-style search  *)
(* over rooms of a rectangular world.  Rooms are <<x, y>> pairs; the exits *)
(* of a room (game::map::describe_exits) and the cost callback are inputs  *)
(* chosen in the initial state and never changed afterwards.               *)
(*                                                                         *)
(* The search is modelled at the granularity of its loops: one step per    *)
(* pop of the open set, one per exit direction examined in the for loop    *)
(* (in any order: the key order of the exits map is unspecified), one per  *)
(* iteration of the backward walk of resolve_completed_path.  The binary   *)
(* heap is a bag of entries; a pop removes any entry that no other entry   *)
(* beats under Ord::cmp, so every tie-break of the heap is covered.        *)
(***************************************************************************)
EXTENDS Integers, FiniteSets, Sequences, Bags, TLC

(* ----------------------------- bounds --------------------------------- *)
\* the world of the general specification is MaxX columns by MaxY rows
MaxX == 3
MaxY == 2
\* goal sets hold between one and MaxGoals rooms
MaxGoals == 2
\* at most MaxOdd rooms report an exit set other than the open grid's
MaxOdd == 1
\* at most MaxCostly rooms have a cost other than 1
MaxCostly == 1
\* the world of the open-grid specification is GridX columns by GridY rows
GridX == 4
GridY == 3
\* rooms of the free-room world that may cost nothing
MaxFree == 2

(* ------------------------ program constants --------------------------- *)
\* u8::MAX, the impassable sentinel of the cost callback
U8_MAX == 255
\* u32::MAX, the initial lowest_cost of the heuristic.  TLC's integers are
\* 32-bit signed, so the largest of them stands for it; it is only ever
\* compared with distances, which are far smaller than either number.
U32_MAX == 2147483647

(* ------------------------------ state --------------------------------- *)
VARIABLES
    world,          \* <<columns, rows>>: the rooms for which RoomName exists
    origin,         \* find_route's origin
    goals,          \* find_route's goals
    exits,          \* room -> the directions describe_exits reports for it
    cost,           \* room -> what cost_callback returns for it
    open_set,       \* the BinaryHeap, a bag of PortalRouterOpenSetEntry
    visited,        \* the HashMap room -> Option<Direction>
    pc,             \* "loop" | "exits" | "resolve" | "spin" | "done"
    open_set_entry, \* the entry being expanded (NoEntry outside the for loop)
    dirs_left,      \* directions the for loop has not yet yielded
    room_name,      \* resolve_completed_path's room_name: <<>> or <<room>>
    cursor_room,    \* resolve_completed_path's cursor_room: <<>> or <<room>>
    path,           \* resolve_completed_path's path
    result,         \* "None" while running, then "Ok" (with path) or "Fail"
    cost_calls,     \* history: bag of rooms cost_callback was called on
    pushed,         \* history: bag of rooms pushed onto open_set
    popped,         \* history: bag of rooms popped from open_set
    inserted        \* history: bag of rooms passed to visited.insert

inputs == <<world, origin, goals, exits, cost>>
search == <<open_set, visited, open_set_entry, dirs_left>>
resolve == <<room_name, cursor_room, path>>
history == <<cost_calls, pushed, popped, inserted>>
vars == <<inputs, search, resolve, history, pc, result>>

(* ---------------------- rooms and directions -------------------------- *)
\* the directions describe_exits can report: a room has exits on its four sides
Dirs == {"Top", "Right", "Bottom", "Left"}

\* Option<Direction>::None
NoDir == "None"

\* Neg for Direction
Neg(d) ==
    CASE d = "Top" -> "Bottom"
      [] d = "Right" -> "Left"
      [] d = "Bottom" -> "Top"
      [] d = "Left" -> "Right"

\* Direction -> (i32, i32)
Offset(d) ==
    CASE d = "Top" -> <<0, -1>>
      [] d = "Right" -> <<1, 0>>
      [] d = "Bottom" -> <<0, 1>>
      [] d = "Left" -> <<-1, 0>>

RoomsOf(w) == (0 .. (w[1] - 1)) \X (0 .. (w[2] - 1))

Rooms == RoomsOf(world)

\* RoomName::checked_add: <<>> is None, <<room>> is Some(room)
checked_add_in(w, room, offset) ==
    LET x == room[1] + offset[1]
        y == room[2] + offset[2]
    IN  IF x >= 0 /\ x < w[1] /\ y >= 0 /\ y < w[2] THEN << <<x, y>> >> ELSE <<>>

checked_add(room, offset) == checked_add_in(world, room, offset)

\* u32::abs_diff of two coordinates
abs_diff(a, b) == IF a >= b THEN a - b ELSE b - a

\* game::map::describe_exits(room).keys()
describe_exits(room) == exits[room]

\* cost_callback(&room)
cost_callback(room) == cost[room]

(* ------------------------- open set entries --------------------------- *)
\* Find cost as the lowest manhattan distance to any goal: the for loop of
\* get_heuristic_cost_to_closest_goal over the goals still to be scanned
\* the scan stopping at the first goal, whatever its distance
heuristic_scan_first_goal(room, gs, lowest_cost) ==
    IF gs = {} THEN lowest_cost
    ELSE LET goal == CHOOSE g \in gs : TRUE
         IN  abs_diff(room[1], goal[1]) + abs_diff(room[2], goal[2])

RECURSIVE heuristic_scan(_, _, _)
heuristic_scan(room, gs, lowest_cost) ==
    IF gs = {} THEN lowest_cost
    ELSE LET goal == CHOOSE g \in gs : TRUE
             c == abs_diff(room[1], goal[1]) + abs_diff(room[2], goal[2])
         IN  heuristic_scan(room, gs \ {goal},
                            IF c < lowest_cost THEN c ELSE lowest_cost)

get_heuristic_cost_to_closest_goal(room, gs) == heuristic_scan(room, gs, U32_MAX)

\* PortalRouterOpenSetEntry::new
PortalRouterOpenSetEntry(room, g_score, open_dir, gs) ==
    LET heuristic_cost == get_heuristic_cost_to_closest_goal(room, gs)
    IN  [room |-> room, g_score |-> g_score,
         f_score |-> g_score + heuristic_cost, open_dir |-> open_dir]

\* no entry is being expanded
NoEntry == [room |-> <<-1, -1>>, g_score |-> 0, f_score |-> 0, open_dir |-> NoDir]

\* u32::cmp
u32_cmp(a, b) == IF a < b THEN "Less" ELSE IF a > b THEN "Greater" ELSE "Equal"

\* the ordering without the inversion: the heap pops the highest f_score
cmp_not_inverted(self, other) == u32_cmp(self.f_score, other.f_score)

\* Ord for PortalRouterOpenSetEntry: the usual ordering is inverted
cmp(self, other) == u32_cmp(other.f_score, self.f_score)

\* BinaryHeap::pop can return entry e: no entry of the heap is greater
IsGreatest(e, heap) == \A o \in BagToSet(heap) : cmp(e, o) # "Less"

\* HashMap::insert: an existing value is replaced
Insert(map, key, value) ==
    [k \in (DOMAIN map) \cup {key} |-> IF k = key THEN value ELSE map[k]]

(* ------------------------ the body of the for loop --------------------- *)
\* the part of the search that one iteration of the for loop reads and writes
SearchState ==
    [open_set |-> open_set, visited |-> visited, room_name |-> room_name,
     cost_calls |-> cost_calls, pushed |-> pushed, inserted |-> inserted]

\* the skip with the negation forgotten
is_backtrack_no_neg(direction, open_dir) == direction = open_dir

\* skip this direction quickly if it's toward the room that opened this entry
is_backtrack(direction, open_dir) == Neg(direction) = open_dir

\* the membership test always failing
contains_key_never(map, adj_room_name) == FALSE

\* visited.contains_key(&adj_room_name)
contains_key(map, adj_room_name) == adj_room_name \in DOMAIN map

\* the sentinel itself taken as passable
passable_inclusive(adj_traverse_cost) == adj_traverse_cost <= U8_MAX

\* adj_traverse_cost < u8::MAX
passable(adj_traverse_cost) == adj_traverse_cost < U8_MAX

\* the push with the cost so far forgotten: g_score is the room's cost alone
push_if_passable_not_accumulated(s, entry, adj_room_name, direction) ==
    LET adj_traverse_cost == cost_callback(adj_room_name)
        called == [s EXCEPT !.cost_calls = @ (+) SetToBag({adj_room_name})]
    IN  IF passable(adj_traverse_cost)
        THEN [called EXCEPT
                !.open_set = @ (+) SetToBag({PortalRouterOpenSetEntry(
                    adj_room_name, adj_traverse_cost, direction, goals)}),
                !.pushed = @ (+) SetToBag({adj_room_name})]
        ELSE called

\* the cost callback and the push, for a room that is no goal
push_if_passable(s, entry, adj_room_name, direction) ==
    LET adj_traverse_cost == cost_callback(adj_room_name)
        called == [s EXCEPT !.cost_calls = @ (+) SetToBag({adj_room_name})]
    IN  IF passable(adj_traverse_cost)
        THEN [called EXCEPT
                !.open_set = @ (+) SetToBag({PortalRouterOpenSetEntry(
                    adj_room_name, entry.g_score + adj_traverse_cost,
                    direction, goals)}),
                !.pushed = @ (+) SetToBag({adj_room_name})]
        ELSE called

\* the cost looked up before the goal test: an impassable goal is dropped
goal_or_push_cost_first(s, entry, adj_room_name, direction) ==
    LET called == [s EXCEPT !.cost_calls = @ (+) SetToBag({adj_room_name})]
    IN  IF ~passable(cost_callback(adj_room_name)) THEN called
        ELSE IF adj_room_name \in goals
        THEN [called EXCEPT !.room_name = <<adj_room_name>>]
        ELSE [push_if_passable(s, entry, adj_room_name, direction)
                EXCEPT !.cost_calls = called.cost_calls]

\* the goal test forgotten: a goal is pushed like any other room
goal_or_push_no_goal_test(s, entry, adj_room_name, direction) ==
    push_if_passable(s, entry, adj_room_name, direction)

\* unvisited; check if goal first, then add open set entry if passable
goal_or_push(s, entry, adj_room_name, direction) ==
    IF adj_room_name \in goals
    THEN [s EXCEPT !.room_name = <<adj_room_name>>]
    ELSE push_if_passable(s, entry, adj_room_name, direction)

\* the iteration recording the inverse of the direction travelled
visit_exit_records_inverse(s, entry, direction) ==
    IF is_backtrack(direction, entry.open_dir) THEN s
    ELSE LET adj == checked_add(entry.room, Offset(direction))
         IN  IF adj = <<>> THEN s
             ELSE IF contains_key(s.visited, adj[1]) THEN s
             ELSE goal_or_push(
                    [s EXCEPT !.visited = Insert(@, adj[1], Neg(direction)),
                              !.inserted = @ (+) SetToBag({adj[1]})],
                    entry, adj[1], direction)

\* one iteration of the for loop over the exits of entry.room
visit_exit(s, entry, direction) ==
    IF is_backtrack(direction, entry.open_dir) THEN s
    ELSE LET adj == checked_add(entry.room, Offset(direction))
         IN  IF adj = <<>> THEN s
             ELSE IF contains_key(s.visited, adj[1]) THEN s
             ELSE goal_or_push(
                    [s EXCEPT !.visited = Insert(@, adj[1], direction),
                              !.inserted = @ (+) SetToBag({adj[1]})],
                    entry, adj[1], direction)

(* ----------------------- resolve_completed_path ------------------------ *)
\* the path started without the room the walk starts from
resolve_start_empty(goal) == [path |-> {}, cursor_room |-> <<goal>>]

\* let mut path = HashSet::new(); path.insert(room_name); cursor_room = room_name
resolve_start(goal) == [path |-> {goal}, cursor_room |-> <<goal>>]

\* the walk following the recorded direction instead of its inverse
resolve_walk_forward(p, cursor, map) ==
    IF cursor \notin DOMAIN map \/ map[cursor] = NoDir
    THEN [path |-> p, cursor_room |-> <<cursor>>, next |-> "return"]
    ELSE LET next_room == checked_add(cursor, Offset(map[cursor]))
         IN  IF next_room # <<>>
             THEN [path |-> p \cup {next_room[1]}, cursor_room |-> next_room,
                   next |-> "walk"]
             ELSE [path |-> p, cursor_room |-> <<cursor>>, next |-> "spin"]

\* one test of the while-let condition and, when it holds, one run of its body:
\* next is "return" when the loop is left (no entry for the cursor, or the
\* entry is None), "walk" when the cursor moved, "spin" when checked_add
\* failed, which leaves every variable as it was and repeats the iteration
resolve_walk(p, cursor, map) ==
    IF cursor \notin DOMAIN map \/ map[cursor] = NoDir
    THEN [path |-> p, cursor_room |-> <<cursor>>, next |-> "return"]
    ELSE LET next_room == checked_add(cursor, Offset(Neg(map[cursor])))
         IN  IF next_room # <<>>
             THEN [path |-> p \cup {next_room[1]}, cursor_room |-> next_room,
                   next |-> "walk"]
             ELSE [path |-> p, cursor_room |-> <<cursor>>, next |-> "spin"]

(* ------------------------------ inputs -------------------------------- *)
AtMost(S, n) == {T \in SUBSET S : Cardinality(T) <= n}

\* the exits of a room of the open grid: one to every neighbour in the world
GridExits(w, room) == {d \in Dirs : checked_add_in(w, room, Offset(d)) # <<>>}

\* what the cost callback may return: the extremes of u8 and two costs between
CostValues == {0, 1, 2, U8_MAX}

\* what an odd room may report: any part of its grid exits (one-way exits,
\* no exits at all), or all four directions (exits leading out of the world)
OddExits(w, room) == (SUBSET GridExits(w, room)) \cup {Dirs}

\* the open grid, except that up to MaxOdd rooms report an odd set of exits
ExitMaps(w) ==
    {[room \in RoomsOf(w) |-> IF room \in DOMAIN f THEN f[room] ELSE GridExits(w, room)] :
        f \in UNION {{g \in [T -> SUBSET Dirs] : \A room \in T : g[room] \in OddExits(w, room)} :
                        T \in AtMost(RoomsOf(w), MaxOdd)}}

\* cost 1 everywhere, except that up to MaxCostly rooms have any cost
CostMaps(w) ==
    {[room \in RoomsOf(w) |-> IF room \in DOMAIN f THEN f[room] ELSE 1] :
        f \in UNION {[T -> CostValues] : T \in AtMost(RoomsOf(w), MaxCostly)}}

\* the goal set is not empty
GoalSets(w) == AtMost(RoomsOf(w), MaxGoals) \ {{}}


(* --------------------------- initial states ---------------------------- *)
\* the ledger before the loop, with the origin's entry forgotten
first_visited_empty(o) == <<>>

\* visited.insert(origin, None)
first_visited(o) == Insert(<<>>, o, NoDir)

\* find_route up to its while loop, for inputs already chosen
Start ==
    /\ open_set = SetToBag({PortalRouterOpenSetEntry(origin, 0, NoDir, goals)})
    /\ visited = first_visited(origin)
    /\ pc = "loop"
    /\ open_set_entry = NoEntry
    /\ dirs_left = {}
    /\ room_name = <<>>
    /\ cursor_room = <<>>
    /\ path = {}
    /\ result = "None"
    /\ cost_calls = EmptyBag
    /\ pushed = SetToBag({origin})
    /\ popped = EmptyBag
    /\ inserted = SetToBag({origin})

Init ==
    /\ world = <<MaxX, MaxY>>
    /\ origin \in RoomsOf(world)
    /\ goals \in GoalSets(world)
    /\ exits \in ExitMaps(world)
    /\ cost \in CostMaps(world)
    /\ Start

\* the open grid with a uniform cost of 1
GridInit ==
    /\ world = <<GridX, GridY>>
    /\ origin \in RoomsOf(world)
    /\ goals \in GoalSets(world)
    /\ exits = [room \in RoomsOf(world) |-> GridExits(world, room)]
    /\ cost = [room \in RoomsOf(world) |-> 1]
    /\ Start

\* the open grid where up to MaxFree rooms cost nothing and the others cost 1
FreeInit ==
    /\ world = <<MaxX, MaxY>>
    /\ origin \in RoomsOf(world)
    /\ goals \in GoalSets(world)
    /\ exits = [room \in RoomsOf(world) |-> GridExits(world, room)]
    /\ cost \in {[room \in RoomsOf(world) |-> IF room \in T THEN 0 ELSE 1] :
                    T \in AtMost(RoomsOf(world), MaxFree)}
    /\ Start

(* ------------------------------ actions -------------------------------- *)
\* while let Some(open_set_entry) = open_set.pop(), an entry popped
PopEntry ==
    /\ pc = "loop"
    /\ \E e \in BagToSet(open_set) :
        /\ IsGreatest(e, open_set)
        /\ open_set' = open_set (-) SetToBag({e})
        /\ open_set_entry' = e
        /\ dirs_left' = describe_exits(e.room)
        /\ popped' = popped (+) SetToBag({e.room})
    /\ pc' = "exits"
    /\ UNCHANGED <<inputs, visited, resolve, result, cost_calls, pushed, inserted>>

\* while let Some(open_set_entry) = open_set.pop(), the heap empty
Exhausted ==
    /\ pc = "loop"
    /\ open_set = EmptyBag
    /\ result' = "Fail"
    /\ pc' = "done"
    /\ UNCHANGED <<inputs, search, resolve, history>>

\* one iteration of the for loop, for any direction not yet yielded; a goal
\* found calls resolve_completed_path
ExamineExit ==
    /\ pc = "exits"
    /\ \E direction \in dirs_left :
        \E n \in {visit_exit(SearchState, open_set_entry, direction)} :
            /\ open_set' = n.open_set
            /\ visited' = n.visited
            /\ room_name' = n.room_name
            /\ cost_calls' = n.cost_calls
            /\ pushed' = n.pushed
            /\ inserted' = n.inserted
            /\ dirs_left' = dirs_left \ {direction}
            /\ IF n.room_name # <<>>
               THEN /\ path' = resolve_start(n.room_name[1]).path
                    /\ cursor_room' = resolve_start(n.room_name[1]).cursor_room
                    /\ pc' = "resolve"
               ELSE /\ UNCHANGED <<path, cursor_room>>
                    /\ pc' = "exits"
    /\ UNCHANGED <<inputs, open_set_entry, popped, result>>

\* the for loop has yielded every exit
ExitsDone ==
    /\ pc = "exits"
    /\ dirs_left = {}
    /\ pc' = "loop"
    /\ open_set_entry' = NoEntry
    /\ UNCHANGED <<inputs, open_set, visited, dirs_left, resolve, result, history>>

\* one iteration of the while loop of resolve_completed_path; leaving the
\* loop returns Ok(path)
ResolveWalk ==
    /\ pc = "resolve"
    /\ \E n \in {resolve_walk(path, cursor_room[1], visited)} :
           /\ path' = n.path
           /\ cursor_room' = n.cursor_room
           /\ pc' = CASE n.next = "return" -> "done"
                      [] n.next = "walk" -> "resolve"
                      [] n.next = "spin" -> "spin"
           /\ result' = IF n.next = "return" THEN "Ok" ELSE result
    /\ UNCHANGED <<inputs, search, room_name, history>>

Next == PopEntry \/ Exhausted \/ ExamineExit \/ ExitsDone \/ ResolveWalk

Spec == Init /\ [][Next]_vars

GridSpec == GridInit /\ [][Next]_vars

FreeSpec == FreeInit /\ [][Next]_vars

(* ------------------------ auxiliary definitions ------------------------ *)
\* |x(a) - x(b)| + |y(a) - y(b)|
Manhattan(a, b) == abs_diff(a[1], b[1]) + abs_diff(a[2], b[2])

\* the rooms one reported exit away from room
Neighbours(room) ==
    {checked_add(room, Offset(d))[1] :
        d \in {e \in exits[room] : checked_add(room, Offset(e)) # <<>>}}

\* a room a route may pass through: the origin, or a room below the sentinel
Traversable(room) == room = origin \/ cost[room] < U8_MAX

\* the rooms that can be entered from the origin by following reported exits
\* through traversable rooms (the room entered last need not be traversable)
RECURSIVE ReachFrom(_)
ReachFrom(S) ==
    LET T == S \cup UNION {Neighbours(room) : room \in {r \in S : Traversable(r)}}
    IN  IF T = S THEN S ELSE ReachFrom(T)

GoalReachable == \E g \in goals \ {origin} : g \in ReachFrom({origin})

\* the search state find_route starts its loop with
StartState ==
    [open_set |-> SetToBag({PortalRouterOpenSetEntry(origin, 0, NoDir, goals)}),
     visited |-> first_visited(origin), room_name |-> <<>>,
     cost_calls |-> EmptyBag, pushed |-> SetToBag({origin}),
     inserted |-> SetToBag({origin})]

\* the exits of a room in clockwise order from the top
ExitsClockwise(room) ==
    SelectSeq(<<"Top", "Right", "Bottom", "Left">>, LAMBDA d : d \in describe_exits(room))

\* the for loop run over the directions ds in order, until a goal is found
RECURSIVE RunExits(_, _, _)
RunExits(s, entry, ds) ==
    IF ds = <<>> \/ s.room_name # <<>> THEN s
    ELSE RunExits(visit_exit(s, entry, Head(ds)), entry, Tail(ds))

\* the outcome of the one run of find_route in which exits come clockwise and
\* the heap breaks ties by CHOOSE
RECURSIVE RunClockwise(_)
RunClockwise(s) ==
    IF s.room_name # <<>> THEN "Ok"
    ELSE IF s.open_set = EmptyBag THEN "Fail"
    ELSE LET e == CHOOSE e \in BagToSet(s.open_set) : IsGreatest(e, s.open_set)
         IN  RunClockwise(RunExits([s EXCEPT !.open_set = @ (-) SetToBag({e})],
                                   e, ExitsClockwise(e.room)))

\* a bound on the steps find_route has left: seven for every room not yet
\* popped (a pop, its exits, the end of its for loop), one for every exit the
\* for loop has still to yield, one for every room the path can still gain
Variant ==
    7 * (world[1] * world[2] - BagCardinality(popped))
    + Cardinality(dirs_left)
    + (IF pc = "exits" THEN 1 ELSE 0)
    + (world[1] * world[2] - Cardinality(path))
    + (IF pc # "done" THEN 1 ELSE 0)

(* ------------------------------- claims -------------------------------- *)
\* C1 as stated: a room whose cost is the impassable sentinel is never pushed
\* onto the open set and never appears in a returned path.
C1_SentinelNeverPushedNorReturned ==
    /\ \A room \in BagToSet(pushed) : cost[room] # U8_MAX
    /\ result = "Ok" => \A room \in path : cost[room] # U8_MAX

\* C1 as amended: a room whose cost is the impassable sentinel is never pushed
\* onto the open set unless it is the origin, and appears in a returned path
\* only as the origin or as the discovered goal.
C1_SentinelOnlyAtEnds ==
    /\ \A room \in BagToSet(pushed) \ {origin} : cost[room] # U8_MAX
    /\ \A e \in BagToSet(open_set) : e.room # origin => cost[e.room] # U8_MAX
    /\ room_name # <<>> =>
        \A room \in path \ {origin, room_name[1]} : cost[room] # U8_MAX

C1_Witness ==
    /\ result = "Ok"
    /\ Cardinality(path) >= 3
    /\ \E room \in DOMAIN visited :
        room # origin /\ room \notin goals /\ cost[room] = U8_MAX

\* C2: the cost callback is never called on a room of the goal set, and a goal
\* other than the origin that enters the visited map ends the search with
\* success at once, whatever its own cost.
C2_GoalTestBeforeCost ==
    /\ \A room \in BagToSet(cost_calls) : room \notin goals
    /\ \A g \in goals \ {origin} :
        g \in DOMAIN visited =>
            /\ room_name = <<g>>
            /\ pc \in {"resolve", "done"}
            /\ pc = "done" => result = "Ok"

C2_Witness ==
    /\ result = "Ok"
    /\ cost[room_name[1]] = U8_MAX
    /\ room_name[1] # origin

\* C3: on the open grid with cost 1 everywhere, a returned path has as many
\* rooms as the Manhattan distance from the origin to the discovered goal,
\* plus one.
C3_GridPathLength ==
    result = "Ok" => Cardinality(path) = Manhattan(origin, room_name[1]) + 1

C3_Witness ==
    /\ result = "Ok"
    /\ origin = <<0, 0>>
    /\ goals = {<<2, 0>>}
    /\ Cardinality(path) = 3
    /\ {<<0, 0>>, <<2, 0>>} \subseteq path

\* C4: every run of find_route ends with the outcome of the clockwise run on
\* the same inputs, so any two runs on the same inputs agree on success or
\* failure.
C4_OutcomeDeterministic ==
    pc = "done" => result = RunClockwise(StartState)

C4_Witness ==
    /\ pc = "done"
    /\ result = "Ok"
    /\ Cardinality(goals) = 2
    /\ \E room \in DOMAIN visited : cost[room] = U8_MAX /\ room \notin goals

\* C5: when the origin is a goal, the origin is never the discovered goal, a
\* success is the discovery of another goal and its path is not {origin}, the
\* origin is the first room expanded, and the search fails when the origin is
\* the only goal.
C5_OriginGoalNotTrivial ==
    origin \in goals =>
        /\ room_name # <<origin>>
        /\ result = "Ok" =>
            /\ room_name # <<>>
            /\ room_name[1] \in goals \ {origin}
            /\ path # {origin}
        /\ pc # "loop" \/ popped # EmptyBag => BagIn(origin, popped)
        /\ pc = "done" /\ goals = {origin} => result = "Fail"

C5_Witness ==
    /\ origin \in goals
    /\ result = "Ok"
    /\ Cardinality(path) >= 3

\* C6: a successful result holds the origin and the goal whose discovery ended
\* the search.
C6_PathHoldsOriginAndGoal ==
    result = "Ok" => room_name # <<>> /\ origin \in path /\ room_name[1] \in path

C6_Witness ==
    /\ result = "Ok"
    /\ Cardinality(path) >= 4

\* C7: find_route terminates: every step lowers a natural number, no state
\* but a final one is without a next step, and a final state is either Ok
\* with a goal discovered or Fail with the open set exhausted.
C7_Terminates ==
    /\ [](Variant >= 0)
    /\ [][Variant' < Variant]_vars
    /\ [](pc # "done" => ENABLED Next)
    /\ [](pc = "done" =>
            \/ result = "Ok" /\ room_name # <<>>
            \/ result = "Fail" /\ room_name = <<>> /\ open_set = EmptyBag)

C7_Witness ==
    /\ result = "Fail"
    /\ BagCardinality(popped) >= 3

\* C8: a room enters the visited map once, when the for loop first meets it
\* as the neighbour of the entry being expanded and before its cost is asked
\* for; its direction is never changed; the origin's entry stays None.
C8_LedgerWriteOnce ==
    /\ [](/\ DOMAIN visited = BagToSet(inserted)
          /\ \A room \in DOMAIN visited : CopiesIn(room, inserted) = 1
          /\ visited[origin] = NoDir
          /\ BagToSet(cost_calls) \subseteq DOMAIN visited)
    /\ [][/\ \A room \in DOMAIN visited :
                room \in DOMAIN visited' /\ visited'[room] = visited[room]
          /\ Cardinality((DOMAIN visited') \ DOMAIN visited) <= 1
          /\ \A room \in (DOMAIN visited') \ DOMAIN visited :
                /\ pc = "exits"
                /\ visited'[room] \in dirs_left
                /\ checked_add(open_set_entry.room, Offset(visited'[room])) = <<room>>
                /\ ~BagIn(room, cost_calls)]_vars

C8_Witness ==
    /\ pc = "done"
    /\ \E room \in DOMAIN visited :
        room # origin /\ room \notin goals /\ cost[room] = U8_MAX
    /\ Cardinality(DOMAIN visited) >= 4

\* C9: the open set never holds two entries for one room, every room pushed
\* is in the visited map, and no room is popped twice.
C9_NoDuplicateEntries ==
    /\ \A e \in BagToSet(open_set) : CopiesIn(e, open_set) = 1
    /\ \A e1, e2 \in BagToSet(open_set) : e1.room = e2.room => e1 = e2
    /\ BagToSet(pushed) \subseteq DOMAIN visited
    /\ \A room \in BagToSet(popped) : CopiesIn(room, popped) = 1
    /\ \A e \in BagToSet(open_set) : ~BagIn(e.room, popped)

C9_Witness ==
    /\ BagCardinality(open_set) >= 3
    /\ BagCardinality(popped) >= 2

\* C10: find_route fails exactly when no goal other than the origin can be
\* entered from the origin through traversable rooms; an origin without exits
\* always fails.
C10_FailIffUnreachable ==
    pc = "done" =>
        /\ result = "Fail" <=> ~GoalReachable
        /\ describe_exits(origin) = {} => result = "Fail"

C10_Witness ==
    /\ result = "Fail"
    /\ goals # {origin}
    /\ Cardinality(DOMAIN visited) >= 3

(* ---------------------- backpointers of the ledger --------------------- *)
\* the room a visited room was entered from, as resolve_completed_path
\* computes it: <<>> when the inverse offset leaves the world
Predecessor(room) == checked_add(room, Offset(Neg(visited[room])))

\* the rooms met when walking the backpointers from room to the entry that
\* holds None, room first; <<>> when the walk leaves the visited map or the
\* world, or has not met None after fuel steps
RECURSIVE BackChain(_, _)
BackChain(room, fuel) ==
    IF room \notin DOMAIN visited THEN <<>>
    ELSE IF visited[room] = NoDir THEN <<room>>
    ELSE IF fuel = 0 \/ Predecessor(room) = <<>> THEN <<>>
    ELSE LET rest == BackChain(Predecessor(room)[1], fuel - 1)
         IN  IF rest = <<>> THEN <<>> ELSE <<room>> \o rest

\* the walk from room, with as many steps as there are entries to walk over
ChainOf(room) == BackChain(room, Cardinality(DOMAIN visited))

\* C11: every visited room but the origin records a direction whose inverse
\* leads to a room of the world that is visited too, the origin alone
\* records None, and the backpointers lead from every visited room to the
\* origin without meeting a room twice; the walk of resolve_completed_path
\* therefore always finds its cursor in the map and never spins.
C11_BackpointerTree ==
    /\ \A room \in DOMAIN visited :
        /\ visited[room] = NoDir <=> room = origin
        /\ room # origin =>
            /\ Predecessor(room) # <<>>
            /\ Predecessor(room)[1] \in DOMAIN visited
        /\ LET chain == ChainOf(room)
           IN  /\ chain # <<>>
               /\ chain[Len(chain)] = origin
               /\ \A i, j \in 1 .. Len(chain) : chain[i] = chain[j] => i = j
    /\ pc # "spin"
    /\ pc = "resolve" => cursor_room[1] \in DOMAIN visited

C11_Witness ==
    /\ pc = "resolve"
    /\ cursor_room[1] # origin
    /\ Len(ChainOf(room_name[1])) >= 4
    /\ \E room \in DOMAIN visited : Len(ChainOf(room)) = 3 /\ room \notin path

(* --------------------------- cost of routes ---------------------------- *)
\* the sum of the cost callback over a set of rooms
RECURSIVE CostOf(_)
CostOf(S) ==
    IF S = {} THEN 0
    ELSE LET room == CHOOSE r \in S : TRUE
         IN  cost[room] + CostOf(S \ {room})

\* the sum of the cost callback over a sequence of rooms
RECURSIVE CostAlong(_)
CostAlong(rooms) ==
    IF rooms = <<>> THEN 0 ELSE cost[Head(rooms)] + CostAlong(Tail(rooms))

\* between is a route from the origin to room g: every room after the
\* origin is entered through an exit its predecessor reports, and every room
\* of between is below the sentinel
IsRoute(between, g) ==
    LET all == <<origin>> \o between \o <<g>>
    IN  /\ \A i \in 1 .. Len(between) : cost[between[i]] < U8_MAX
        /\ \A i \in 1 .. (Len(all) - 1) : all[i + 1] \in Neighbours(all[i])

\* the sequences of at most n rooms
RoomSeqs(n) == UNION {[1 .. k -> Rooms] : k \in 0 .. n}

\* C12: the goal returned is the first goal met as an unvisited neighbour: no
\* goal but the origin and the returned one is ever in the visited map, the
\* returned goal is a neighbour of the entry being expanded, and from its
\* discovery on nothing is popped, pushed, inserted or asked of the cost
\* callback.  (The witness is a run that returns a goal although another goal
\* has a strictly cheaper route.)
C12_FirstDiscoveredGoalWins ==
    /\ [](/\ \A g \in goals \cap DOMAIN visited : g = origin \/ room_name = <<g>>
          /\ room_name # <<>> =>
                /\ room_name[1] \in goals
                /\ checked_add(open_set_entry.room, Offset(visited[room_name[1]]))
                        = room_name)
    /\ [][room_name # <<>> => UNCHANGED <<search, room_name, history>>]_vars

C12_Witness ==
    /\ result = "Ok"
    /\ \E g \in goals \ {origin, room_name[1]} :
        \E between \in RoomSeqs(Cardinality(path)) :
            /\ IsRoute(between, g)
            /\ CostAlong(between) < CostOf(path \ {origin, room_name[1]})
            /\ CostAlong(between) + cost[g] < CostOf(path \ {origin})

(* --------------------------- route soundness --------------------------- *)
\* C13: in every successful result each room but the origin was entered from
\* its predecessor, itself a room of the set, through an exit that
\* describe_exits reports for the predecessor; every room strictly between
\* the origin and the discovered goal costs less than the sentinel; the set is
\* exactly the backpointer chain of the discovered goal, which repeats no room
\* and ends at the origin; and no goal but the discovered one and possibly
\* the origin is in the set.
C13_RouteSound ==
    result = "Ok" =>
        /\ \A room \in path \ {origin} :
            /\ room \in DOMAIN visited
            /\ Predecessor(room) # <<>>
            /\ Predecessor(room)[1] \in path \ {room}
            /\ visited[room] \in describe_exits(Predecessor(room)[1])
        /\ \A room \in path \ {origin, room_name[1]} : cost_callback(room) < U8_MAX
        /\ LET chain == ChainOf(room_name[1])
           IN  /\ chain # <<>>
               /\ chain[1] = room_name[1]
               /\ chain[Len(chain)] = origin
               /\ Len(chain) = Cardinality(path)
               /\ path = {chain[i] : i \in 1 .. Len(chain)}
        /\ path \cap goals \subseteq {room_name[1], origin}

\* a route of two rooms between its ends is returned, the origin is itself a
\* goal, and a visited room left out of the set branches off the route
C13_Witness ==
    /\ result = "Ok"
    /\ Cardinality(path) = 4
    /\ origin \in goals
    /\ \E room \in DOMAIN visited \ path : Predecessor(room)[1] \in path \ {origin}

(* -------------------------- the backtrack skip ------------------------- *)
\* the iteration of the for loop with the skip at its top removed
visit_exit_no_skip(s, entry, direction) ==
    LET adj == checked_add(entry.room, Offset(direction))
    IN  IF adj = <<>> THEN s
        ELSE IF contains_key(s.visited, adj[1]) THEN s
        ELSE goal_or_push(
                [s EXCEPT !.visited = Insert(@, adj[1], direction),
                          !.inserted = @ (+) SetToBag({adj[1]})],
                entry, adj[1], direction)

\* C14: the backtrack skip is a pure optimisation.  While an entry with
\* open_dir = Some(d) is expanded, the neighbour in direction -d exists and is
\* in the visited map; and in every state of the for loop, for every
\* direction, the iteration without the skip leaves the visited map, the open
\* set, the calls of the cost callback and the goal found exactly as the
\* iteration with the skip does.
C14_SkipIsPureOptimisation ==
    pc = "exits" =>
        /\ open_set_entry.open_dir # NoDir =>
                \E back \in {checked_add(open_set_entry.room,
                                         Offset(Neg(open_set_entry.open_dir)))} :
                    /\ back # <<>>
                    /\ contains_key(visited, back[1])
        /\ \A direction \in Dirs :
                visit_exit_no_skip(SearchState, open_set_entry, direction)
                    = visit_exit(SearchState, open_set_entry, direction)

\* the skip has acted: the exit leading back was yielded, others are left
C14_Witness ==
    /\ pc = "exits"
    /\ open_set_entry.open_dir # NoDir
    /\ Neg(open_set_entry.open_dir) \in describe_exits(open_set_entry.room) \ dirs_left
    /\ dirs_left # {}

(* ------------------------------- scores -------------------------------- *)
\* the sum of the cost callback over the backpointer chain of room, the
\* room included and the origin excluded
ChainCost(room) ==
    LET chain == ChainOf(room)
    IN  CostAlong(SubSeq(chain, 1, Len(chain) - 1))

\* g_score and f_score of entry e are what its backpointer chain makes them
ScoresOf(e) ==
    /\ ChainOf(e.room) # <<>>
    /\ e.g_score = ChainCost(e.room)
    /\ e.room = origin => e.g_score = 0
    /\ e.f_score = e.g_score + get_heuristic_cost_to_closest_goal(e.room, goals)

\* C15: every entry on the open set, and the entry being expanded, has a
\* g_score equal to the sum of the cost callback over its backpointer chain
\* from the origin (excluded) to its room (included), 0 for the origin, and an
\* f_score equal to its g_score plus the heuristic of its room.
C15_ScoreInvariant ==
    /\ \A e \in BagToSet(open_set) : ScoresOf(e)
    /\ pc = "exits" => ScoresOf(open_set_entry)

\* an entry on the open set three steps from the origin whose g_score is
\* not the number of steps
C15_Witness ==
    \E e \in BagToSet(open_set) :
        /\ Len(ChainOf(e.room)) = 4
        /\ e.g_score > 3

(* ------------------------- order of the open set ----------------------- *)
\* C16: every pop takes from the open set an entry whose f_score is minimal
\* among all the entries on it, and the comparison of two entries is the
\* inverted comparison of their f_score alone: whatever their g_score, room
\* and open_dir, the entry of lower f_score is the greater, and entries of
\* equal f_score are equal.
C16_PopIsMinimalF ==
    /\ [][pc = "loop" /\ pc' = "exits" =>
            /\ open_set_entry' \in BagToSet(open_set)
            /\ \A o \in BagToSet(open_set) : open_set_entry'.f_score <= o.f_score]_vars
    /\ [](\A a, b \in BagToSet(open_set) :
            /\ a.f_score < b.f_score <=> cmp(a, b) = "Greater"
            /\ a.f_score = b.f_score <=> cmp(a, b) = "Equal")

\* an entry was just popped while the open set still holds an entry of
\* higher f_score and an entry of the same f_score but another g_score
C16_Witness ==
    /\ pc = "exits"
    /\ dirs_left = describe_exits(open_set_entry.room)
    /\ \E o \in BagToSet(open_set) : o.f_score > open_set_entry.f_score
    /\ \E o \in BagToSet(open_set) :
            /\ o.f_score = open_set_entry.f_score
            /\ o.g_score # open_set_entry.g_score

(* ----------------------------- the heuristic --------------------------- *)
\* |n|
Abs(n) == IF n < 0 THEN 0 - n ELSE n

\* |x(a) - x(b)| + |y(a) - y(b)|
Distance(a, b) == Abs(a[1] - b[1]) + Abs(a[2] - b[2])

\* the heuristic of room for the goal set gs is the distance of room to some
\* goal of gs, no goal of gs is nearer, and it is 0 exactly for a goal
HeuristicIsMinimum(room, gs) ==
    \E h \in {get_heuristic_cost_to_closest_goal(room, gs)} :
        /\ \E goal \in gs : h = Distance(room, goal)
        /\ \A goal \in gs : h <= Distance(room, goal)
        /\ h = 0 <=> room \in gs

\* C17: for every room and every non-empty goal set,
\* get_heuristic_cost_to_closest_goal returns the minimum over the goals of
\* |x(room) - x(goal)| + |y(room) - y(goal)|, and 0 exactly when the room is a
\* goal: for the goal set of the search in every state, and for every goal set
\* of up to MaxGoals + 1 rooms when the search starts.
C17_HeuristicIsMinManhattan ==
    /\ \A room \in Rooms : HeuristicIsMinimum(room, goals)
    /\ popped = EmptyBag =>
            \A gs \in AtMost(Rooms, MaxGoals + 1) \ {{}} :
                \A room \in Rooms : HeuristicIsMinimum(room, gs)

\* a pushed entry on the open set whose room has a goal at distance 4 and a
\* nearer goal at distance 2, which is its heuristic
C17_Witness ==
    \E e \in BagToSet(open_set) :
        /\ e.open_dir # NoDir
        /\ e.f_score - e.g_score = 2
        /\ get_heuristic_cost_to_closest_goal(e.room, goals) = 2
        /\ \E goal \in goals : Distance(e.room, goal) = 4

====
